---- MODULE Spec2Model ----
(***************************************************************************)
(* Model of app.py: the Telegram bot that tracks Apex players.             *)
(*                                                                         *)
(* Two threads share the module-level dictionary `data`:                   *)
(*   - run(): the update dispatch loop (main thread), which polls          *)
(*     getUpdates and routes every update to handle_message or             *)
(*     handle_callback;                                                    *)
(*   - monitor_loop(): the background notification thread.                 *)
(*                                                                         *)
(* A Python string is a sequence of symbols.  A symbol is one character,   *)
(* except that the command words of a callback query ("menu",              *)
(* "add_platform", ...), which contain no separator and no letter whose    *)
(* case matters to the program, are one symbol each.                       *)
(* Python's None is the string "None" where the other values are strings,  *)
(* and the empty set where they are not (an optional number, sequence or   *)
(* dict is a set of at most one element).                                  *)
(***************************************************************************)
EXTENDS Integers, Sequences, FiniteSets, TLC

VARIABLES
    data,       \* the global dict: players, chat_id, adding_player
    disk,       \* players.json: {} while there is no file, or {document}
    offset,     \* run(): the local `offset` ({}: None, or {n})
    batch,      \* run(): update ids of upd["result"] not yet iterated
    runPc,      \* run(): "running", or "terminated" by an uncaught exception
    out,        \* Telegram API calls made by the handler that ran last
    maxSeen,    \* history: highest update id iterated so far (0: none yet)
    routedTo,   \* history: handler the last iterated update was given to
    lastUpdate, \* history: the last iterated update (chat, username, and
                \* the message text or callback data)
    pendingBefore, \* history: the chat of that update had an entry in
                \* data["adding_player"] when its handler was called
    monPc,      \* monitor_loop(): position in the loop
    monCid,     \* monitor_loop(): the local `cid`
    monItems,   \* monitor_loop(): items of list(data["players"].items()) left
    monSt,      \* monitor_loop(): the local `st`
    monDump,    \* monitor_loop(): in save_data, the text json.dumps returned
                \* and write_text has not written yet ({}: not in save_data)
    sent,       \* history: change messages sent in the current pass
    failed,     \* history: keys whose fetch failed in the current pass
    rt,         \* fetch_player_status: currentStateSinceTimestamp of the
                \* "realtime" object of an answer
    now,        \* format_duration: datetime.now(timezone.utc).timestamp()
    since       \* fetch_player_status: "currentStateSince" ({}: not built)

vars == <<data, disk, offset, batch, runPc, out, maxSeen, routedTo,
          lastUpdate, pendingBefore,
          monPc, monCid, monItems, monSt, monDump, sent, failed,
          rt, now, since>>

None == "None"

-----------------------------------------------------------------------------
(* Bounds of the model and its input universes.                            *)

\* update ids the server hands out are 1..MaxUpdateId
MaxUpdateId == 3
\* most updates one getUpdates answer carries
MaxBatch == 2

Chats == {"chat1", "chat2"}

\* config.json: ALLOWED_USERNAMES
ALLOWED_USERS == { <<"A", "l">> }

\* usernames of senders
Usernames == { <<"a", "L">>, <<"e", "v">> }

\* message texts, before strip() (the word "/add" is one symbol)
Texts ==
    { <<>>, <<" ", "A", " ">>, <<"b">>,
      <<"/add", " ", "A", " ", "X", "1">>,
      <<"/add", " ", "A", " ", "x", "b">> }

\* state codes the status API reports
StateCodes == {"offline", "inMatch"}

-----------------------------------------------------------------------------
(* str.lower(), str.upper(), str.strip(), str.split(sep, maxsplit)         *)

lowerChar(c) ==
    CASE c = "A" -> "a"
      [] c = "B" -> "b"
      [] c = "C" -> "c"
      [] c = "L" -> "l"
      [] c = "P" -> "p"
      [] c = "S" -> "s"
      [] c = "X" -> "x"
      [] OTHER -> c

upperChar(c) ==
    CASE c = "a" -> "A"
      [] c = "b" -> "B"
      [] c = "c" -> "C"
      [] c = "l" -> "L"
      [] c = "p" -> "P"
      [] c = "s" -> "S"
      [] c = "x" -> "X"
      [] OTHER -> c

lower(s) == [i \in 1..Len(s) |-> lowerChar(s[i])]

upper(s) == [i \in 1..Len(s) |-> upperChar(s[i])]

RECURSIVE strip(_)
strip(s) ==
    IF s = <<>> THEN s
    ELSE IF Head(s) = " " THEN strip(Tail(s))
    ELSE IF s[Len(s)] = " " THEN strip(SubSeq(s, 1, Len(s) - 1))
    ELSE s

RECURSIVE split(_, _, _)
split(s, sep, maxsplit) ==
    IF maxsplit = 0 \/ ~(\E i \in 1..Len(s) : s[i] = sep)
    THEN <<s>>
    ELSE LET i == CHOOSE i \in 1..Len(s) :
                      s[i] = sep /\ \A j \in 1..(i - 1) : s[j] # sep
         IN  <<SubSeq(s, 1, i - 1)>>
                 \o split(SubSeq(s, i + 1, Len(s)), sep, maxsplit - 1)

startswith(s, prefix) ==
    Len(s) >= Len(prefix) /\ SubSeq(s, 1, Len(prefix)) = prefix

-----------------------------------------------------------------------------
(* Program constants                                                       *)

VALID_PLATFORMS ==
    { <<"P", "C">>, <<"X", "1">>, <<"P", "S", "4">>,
      <<"S", "W", "I", "T", "C", "H">> }

\* the fixed texts the handlers send, by what they say
TEXT_UNAUTHORIZED     == "unauthorized user"
TEXT_WELCOME          == "welcome, choose a function"
TEXT_NAME_RECEIVED    == "player name received, choose the platform"
TEXT_MAIN_MENU        == "main menu"
TEXT_ENTER_NAME       == "enter the player name to add"
TEXT_INVALID_PLATFORM == "the selected platform is invalid"
TEXT_ADDED            == "player added"
TEXT_CANCELLED        == "operation cancelled"
TEXT_LIST             == "tracked players"
TEXT_DETAILS          == "player details"
TEXT_NOT_FOUND        == "player not found"
TEXT_STATUS           == "current status of the player"
TEXT_STATUS_FAILED    == "cannot fetch the status, try later"
TEXT_NOTIFY_TOGGLED   == "notification switched"
TEXT_REMOVED          == "player removed"
TEXT_STATE_CHANGED    == "state changed"

-----------------------------------------------------------------------------
(* dict data["players"]: a sequence of items <<key, info>> in insertion    *)
(* order (a Python dict iterates in insertion order; assigning to a key    *)
(* that is present keeps its place).                                       *)

Item(key, info) == [key |-> key, info |-> info]

keys(players) == {players[i].key : i \in DOMAIN players}

getitem(players, key) ==
    players[CHOOSE i \in DOMAIN players : players[i].key = key].info

\* setitem that never looks for the key
setitem_append(players, key, info) == Append(players, Item(key, info))

setitem(players, key, info) ==
    IF key \in keys(players)
    THEN [i \in DOMAIN players |->
             IF players[i].key = key THEN Item(key, info) ELSE players[i]]
    ELSE Append(players, Item(key, info))

delitem(players, key) ==
    SelectSeq(players, LAMBDA it : it.key # key)

\* dict data["adding_player"]: a function from the chats that have an entry
\* to the optional pending name
\* pop that removes nothing
pop_keep(adding, cid) == adding

pop(adding, cid) == [c \in (DOMAIN adding) \ {cid} |-> adding[c]]

put(adding, cid, value) ==
    [c \in (DOMAIN adding) \cup {cid} |-> IF c = cid THEN value ELSE adding[c]]

-----------------------------------------------------------------------------
(* Telegram API calls as the handlers make them                            *)

Call(api, chat, text) == [api |-> api, chat |-> chat, text |-> text]

telegram_send_message(cid, text) == Call("sendMessage", cid, text)

telegram_edit_message(cid, text) == Call("editMessageText", cid, text)

telegram_answer_callback(cid) == Call("answerCallbackQuery", cid, "")

is_authorized(username) ==
    username # <<>> /\ lower(username) \in {lower(u) : u \in ALLOWED_USERS}

-----------------------------------------------------------------------------
(* The handlers, as functions of the global dict and the update.  `fail`   *)
(* is the environment's choice of the Telegram call (1 = first call of the *)
(* handler, 2 = second) whose HTTP request raises; 0 when none does.  The  *)
(* telegram_* helpers catch nothing, so the exception leaves the handler   *)
(* at that call.  A result holds the dict as the handler leaves it, the    *)
(* calls it issued (the raising one included), whether an exception left   *)
(* it, and the keys whose info object it took out of data["players"]       *)
(* (deleted, or replaced by a new dict).                                   *)

Result(d, calls, raised, unlinked) ==
    [data |-> d, out |-> calls, raised |-> raised, unlinked |-> unlinked,
     saved |-> FALSE]

\* the result of a handler that called save_data() after its last change of
\* the dict
Saved(result) == [result EXCEPT !.saved = TRUE]

\* handle_message binding the chat before it checks the sender
handle_message_bind_first(d, msg, fail) ==
    LET cid == msg.chat
        d1  == [d EXCEPT !.chat_id = cid]
    IN  IF ~is_authorized(msg.username)
        THEN Result(d1, <<telegram_send_message(cid, TEXT_UNAUTHORIZED)>>,
                    fail = 1, {})
        ELSE IF cid \in DOMAIN d1.adding_player
        THEN Saved(Result([d1 EXCEPT !.adding_player =
                                         put(@, cid, {strip(msg.text)})],
                          <<telegram_send_message(cid, TEXT_NAME_RECEIVED)>>,
                          fail = 1, {}))
        ELSE Saved(Result(d1, <<telegram_send_message(cid, TEXT_WELCOME)>>,
                          fail = 1, {}))

\* handle_message that does not bind the chat
handle_message_no_bind(d, msg, fail) ==
    LET cid == msg.chat
    IN  IF ~is_authorized(msg.username)
        THEN Result(d, <<telegram_send_message(cid, TEXT_UNAUTHORIZED)>>,
                    fail = 1, {})
        ELSE IF cid \in DOMAIN d.adding_player
        THEN Saved(Result([d EXCEPT !.adding_player =
                                        put(@, cid, {strip(msg.text)})],
                          <<telegram_send_message(cid, TEXT_NAME_RECEIVED)>>,
                          fail = 1, {}))
        ELSE Result(d, <<telegram_send_message(cid, TEXT_WELCOME)>>,
                    fail = 1, {})

handle_message(d, msg, fail) ==
    LET cid  == msg.chat
        user == msg.username
        text == strip(msg.text)
    IN  IF ~is_authorized(user)
        THEN Result(d, <<telegram_send_message(cid, TEXT_UNAUTHORIZED)>>,
                    fail = 1, {})
        ELSE LET d1 == [d EXCEPT !.chat_id = cid]
             IN  IF cid \in DOMAIN d1.adding_player
                 THEN \* save_data() at lines 163 and 167
                      Saved(Result([d1 EXCEPT !.adding_player =
                                                  put(@, cid, {text})],
                            <<telegram_send_message(cid, TEXT_NAME_RECEIVED)>>,
                            fail = 1, {}))
                 ELSE Saved(Result(d1,
                            <<telegram_send_message(cid, TEXT_WELCOME)>>,
                            fail = 1, {}))

\* add_platform storing the record under the name as typed
add_platform_raw_key(d, cid, query, answered, fail) ==
    LET parts == split(query, "|", 2)
    IN  IF Len(parts) # 3
        THEN Result(d, answered, TRUE, {})
        ELSE IF upper(parts[3]) \notin VALID_PLATFORMS
        THEN Result(d,
               Append(answered,
                      telegram_edit_message(cid, TEXT_INVALID_PLATFORM)),
               fail = 2, {})
        ELSE Saved(Result(
               [d EXCEPT
                  !.players = setitem(@, parts[2],
                      [platform |-> upper(parts[3]), notify |-> TRUE,
                       last_state |-> None, original_name |-> parts[2]]),
                  !.adding_player = pop(@, cid)],
               Append(answered, telegram_edit_message(cid, TEXT_ADDED)),
               fail = 2,
               {parts[2]} \cap keys(d.players)))

\* add_platform without the membership test on the platform
add_platform_any_platform(d, cid, query, answered, fail) ==
    LET parts == split(query, "|", 2)
    IN  IF Len(parts) # 3
        THEN Result(d, answered, TRUE, {})
        ELSE Saved(Result(
               [d EXCEPT
                  !.players = setitem(@, lower(parts[2]),
                      [platform |-> upper(parts[3]), notify |-> TRUE,
                       last_state |-> None, original_name |-> parts[2]]),
                  !.adding_player = pop(@, cid)],
               Append(answered, telegram_edit_message(cid, TEXT_ADDED)),
               fail = 2,
               {lower(parts[2])} \cap keys(d.players)))

\* the branch of handle_callback for query.startswith("add_platform|")
add_platform(d, cid, query, answered, fail) ==
    LET parts == split(query, "|", 2)
    IN  IF Len(parts) # 3
        THEN \* _, name, pf = ... : ValueError, not enough values to unpack
             Result(d, answered, TRUE, {})
        ELSE LET name == parts[2]
                 pf   == upper(parts[3])
                 key  == lower(name)
             IN  IF pf \notin VALID_PLATFORMS
                 THEN Result(d,
                        Append(answered,
                               telegram_edit_message(cid, TEXT_INVALID_PLATFORM)),
                        fail = 2, {})
                 ELSE Saved(Result(
                        [d EXCEPT
                           !.players = setitem(@, key,
                               [platform |-> pf, notify |-> TRUE,
                                last_state |-> None, original_name |-> name]),
                           !.adding_player = pop(@, cid)],
                        Append(answered, telegram_edit_message(cid, TEXT_ADDED)),
                        fail = 2,
                        {key} \cap keys(d.players)))

\* toggle_notify that switches the notification on
toggle_notify_set_on(d, cid, key, answered, fail) ==
    IF key \in keys(d.players)
    THEN Saved(Result(
           [d EXCEPT !.players = setitem(@, key,
               [getitem(@, key) EXCEPT !.notify = TRUE])],
           Append(answered, telegram_edit_message(cid, TEXT_NOTIFY_TOGGLED)),
           fail = 2, {}))
    ELSE Result(d, answered, FALSE, {})

\* the branch of handle_callback for query.startswith("toggle_notify|")
toggle_notify(d, cid, key, answered, fail) ==
    IF key \in keys(d.players)
    THEN Saved(Result(
           [d EXCEPT !.players = setitem(@, key,
               [getitem(@, key) EXCEPT !.notify = ~@])],
           Append(answered, telegram_edit_message(cid, TEXT_NOTIFY_TOGGLED)),
           fail = 2, {}))
    ELSE Result(d, answered, FALSE, {})

handle_callback(d, cb, fail, st) ==
    LET query    == cb.data
        cid      == cb.chat
        answered == <<telegram_answer_callback(cid)>>
        edit(text) == Append(answered, telegram_edit_message(cid, text))
        key      == split(query, "|", 1)[2]
    IN  IF fail = 1 THEN Result(d, answered, TRUE, {})
        ELSE IF query = <<"menu">>
        THEN Result(d, edit(TEXT_MAIN_MENU), fail = 2, {})
        ELSE IF query = <<"add_start">>
        THEN IF fail = 2
             THEN Result(d, edit(TEXT_ENTER_NAME), TRUE, {})
             ELSE Saved(Result([d EXCEPT !.adding_player = put(@, cid, {})],
                               edit(TEXT_ENTER_NAME), FALSE, {}))
        ELSE IF startswith(query, <<"add_platform", "|">>)
        THEN add_platform(d, cid, query, answered, fail)
        ELSE IF query = <<"cancel">>
        THEN Saved(Result([d EXCEPT !.adding_player = pop(@, cid)],
                          edit(TEXT_CANCELLED), fail = 2, {}))
        ELSE IF query = <<"list">>
        THEN Result(d, edit(TEXT_LIST), fail = 2, {})
        ELSE IF startswith(query, <<"player", "|">>)
        THEN IF key \in keys(d.players)
             THEN Result(d, edit(TEXT_DETAILS), fail = 2, {})
             ELSE Result(d, edit(TEXT_NOT_FOUND), fail = 2, {})
        ELSE IF startswith(query, <<"status", "|">>)
        THEN IF key \in keys(d.players)
             THEN IF st # {}
                  THEN Result(d, edit(TEXT_STATUS), fail = 2, {})
                  ELSE Result(d, edit(TEXT_STATUS_FAILED), fail = 2, {})
             ELSE Result(d, answered, FALSE, {})
        ELSE IF startswith(query, <<"toggle_notify", "|">>)
        THEN toggle_notify(d, cid, key, answered, fail)
        ELSE IF startswith(query, <<"remove", "|">>)
        THEN IF key \in keys(d.players)
             THEN Saved(Result([d EXCEPT !.players = delitem(@, key)],
                               edit(TEXT_REMOVED), fail = 2, {key}))
             ELSE Result(d, answered, FALSE, {})
        ELSE Result(d, answered, FALSE, {})

-----------------------------------------------------------------------------
(* fetch_player_status: None (the empty set) on a status other than 200 or *)
(* on any exception, else the dict built from the answer, of which the     *)
(* program reads currentState.  The answer is the status API's: every      *)
(* outcome is possible on each call; the answers of the model all carry a  *)
(* state code.                                                             *)

fetch_player_status ==
    {{}} \cup {{[currentState |-> s]} : s \in StateCodes}

currentState(st) == (CHOOSE r \in st : TRUE).currentState

-----------------------------------------------------------------------------
(* format_duration, and the field of the status record built with it.  A   *)
(* formatted duration is the sequence of the numbers and the unit words of *)
(* the f-string; the clock reading is its whole seconds and whether it has *)
(* a fractional part (the timestamps of the API are whole seconds).        *)

TEXT_UNKNOWN == "unknown"
TEXT_HOURS   == "hours"
TEXT_MINUTES == "minutes"
TEXT_SECONDS == "seconds"

\* int(datetime.now(timezone.utc).timestamp() - ts): int() truncates
\* toward zero
int_diff(clock, t) ==
    IF clock.sec - t >= 0 \/ ~clock.frac
    THEN clock.sec - t
    ELSE clock.sec - t + 1

\* format_duration putting the minutes of the whole duration after the hours
format_duration_total_minutes(ts, clock) ==
    IF ts = {} \/ (\E t \in ts : t < 0)
    THEN <<TEXT_UNKNOWN>>
    ELSE LET diff == int_diff(clock, CHOOSE t \in ts : TRUE)
             h    == diff \div 3600
             m    == diff \div 60
             s    == diff % 60
         IN  IF h # 0 THEN <<h, TEXT_HOURS, m, TEXT_MINUTES>>
             ELSE IF m # 0 THEN <<m, TEXT_MINUTES>>
             ELSE <<s, TEXT_SECONDS>>

\* ts is {} for None, else {t}
format_duration(ts, clock) ==
    IF ts = {} \/ (\E t \in ts : t < 0)
    THEN <<TEXT_UNKNOWN>>
    ELSE LET diff == int_diff(clock, CHOOSE t \in ts : TRUE)
             h    == diff \div 3600
             rem  == diff % 3600
             m    == rem \div 60
             s    == rem % 60
         IN  IF h # 0 THEN <<h, TEXT_HOURS, m, TEXT_MINUTES>>
             ELSE IF m # 0 THEN <<m, TEXT_MINUTES>>
             ELSE <<s, TEXT_SECONDS>>

\* the field of "realtime": absent, or present with null or a number
Missing == [present |-> FALSE, value |-> {}]

Present(value) == [present |-> TRUE, value |-> value]

\* rt.get("currentStateSinceTimestamp", -1)
get_timestamp(field) == IF field.present THEN field.value ELSE {-1}

\* "currentStateSince": format_duration(rt.get(..., -1))
currentStateSince(field, clock) == format_duration(get_timestamp(field), clock)

-----------------------------------------------------------------------------
(* Inputs                                                                  *)

\* clock readings, and how long before each the timestamps of an answer lie
\* (negative: after it)
ClockSeconds == {100000, 200000}

Clocks == [sec : ClockSeconds, frac : BOOLEAN]

Elapsed ==
    {-30, -1, 0, 1, 5, 59, 60, 61, 119, 120, 3599, 3600, 3601, 3659, 3660,
     3661, 7199, 7200, 7261, 86399, 86400, 90061}

Timestamps ==
    {Missing, Present({}), Present({-1}), Present({-5}), Present({0})}
        \cup {Present({c - e}) : c \in ClockSeconds, e \in Elapsed}

\* a message without from.username has the username ""
Messages == [chat : Chats, username : Usernames \cup {<<>>}, text : Texts]

Queries ==
    { <<"menu">>, <<"add_start">>, <<"cancel">>, <<"list">>, <<"none">>,
      <<"add_platform", "|", "A", "|", "P", "C">>,
      <<"add_platform", "|", "a", "|", "x", "1">>,
      <<"add_platform", "|", "B", "|", "P", "S", "4">>,
      <<"add_platform", "|", "B", "|", "S", "W", "I", "T", "C", "H">>,
      <<"add_platform", "|", "A", "|", "x", "b">>,
      <<"add_platform", "|", "A", "|", "B", "|", "P", "C">>,
      <<"add_platform", "|", "A">>,
      <<"player", "|", "a">>, <<"status", "|", "a">>,
      <<"toggle_notify", "|", "a">>, <<"remove", "|", "a">> }

Callbacks == [chat : Chats, username : Usernames, data : Queries]

\* strictly increasing sequences of at most n update ids taken from lo..hi
RECURSIVE Increasing(_, _, _)
Increasing(lo, hi, n) ==
    IF n = 0 THEN {<<>>}
    ELSE {<<>>} \cup
         UNION {{<<i>> \o t : t \in Increasing(i + 1, hi, n - 1)} : i \in lo..hi}

\* telegram_get_updates: what the server may answer when it reports ok.
\* The request carries the offset unless it is None (or 0), and the server
\* answers with updates whose ids are at least the offset, in increasing
\* order.
telegram_get_updates(off) ==
    Increasing(IF off = {} \/ off = {0} THEN 1 ELSE CHOOSE n \in off : TRUE,
               MaxUpdateId, MaxBatch)

-----------------------------------------------------------------------------
(* The state after the module is loaded with no players.json on disk and   *)
(* run() has started the monitor thread.                                   *)

\* an update without message or callback query, and the history before the
\* first update
NoUpdate == [chat |-> None, username |-> <<>>, content |-> <<>>]

\* the dict, the file and the two threads
Start ==
    /\ data = [players |-> <<>>, chat_id |-> None, adding_player |-> <<>>]
    /\ disk = {}
    /\ offset = {}
    /\ batch = <<>>
    /\ runPc = "running"
    /\ out = <<>>
    /\ maxSeen = 0
    /\ routedTo = "none"
    /\ lastUpdate = NoUpdate
    /\ pendingBefore = FALSE
    /\ monPc = "while"
    /\ monCid = None
    /\ monItems = <<>>
    /\ monSt = {}
    /\ monDump = {}
    /\ sent = <<>>
    /\ failed = {}

\* no status answer has been formatted
Init ==
    /\ Start
    /\ rt = Missing
    /\ now = [sec |-> 0, frac |-> FALSE]
    /\ since = {}

runVars == <<offset, batch, runPc, out, maxSeen, routedTo, lastUpdate,
             pendingBefore>>
monVars == <<monPc, monCid, monSt, monDump, sent, failed>>
durVars == <<rt, now, since>>

-----------------------------------------------------------------------------
(* monitor_loop holds references to the info dicts it listed at the start  *)
(* of the pass.  An item of monItems is the key and the reference: the     *)
(* empty set while the object is the one stored in data["players"] under   *)
(* the key, else the object itself, which the registry no longer holds.    *)

Ref(key) == [key |-> key, detached |-> {}]

deref(d, item) ==
    IF item.detached = {} THEN getitem(d.players, item.key)
    ELSE CHOOSE info \in item.detached : TRUE

\* the references after a handler took the objects under `unlinked` out of
\* the registry d
unlink(items, d, unlinked) ==
    [i \in DOMAIN items |->
        IF items[i].key \in unlinked /\ items[i].detached = {}
        THEN [items[i] EXCEPT !.detached = {getitem(d.players, items[i].key)}]
        ELSE items[i]]

-----------------------------------------------------------------------------
(* run(): the update dispatch loop                                         *)

\* requests.get raises in telegram_get_updates: nothing catches it
GetUpdatesRaises ==
    /\ runPc = "running" /\ batch = <<>>
    /\ runPc' = "terminated"
    /\ UNCHANGED <<data, disk, offset, batch, out, maxSeen, routedTo,
                   lastUpdate, pendingBefore,
                   monVars, monItems, durVars>>

\* if not upd.get("ok"): time.sleep(1); continue
GetUpdatesNotOk ==
    /\ runPc = "running" /\ batch = <<>>
    /\ UNCHANGED vars

GetUpdatesOk ==
    /\ runPc = "running" /\ batch = <<>>
    /\ \E result \in telegram_get_updates(offset) : batch' = result
    /\ UNCHANGED <<data, disk, offset, runPc, out, maxSeen, routedTo,
                   lastUpdate, pendingBefore,
                   monVars, monItems, durVars>>

\* the iteration that leaves the offset at the update's own id
Iterate_offset_at_id(handler, u, r) ==
    /\ runPc = "running" /\ batch # <<>>
    /\ offset' = {Head(batch)}
    /\ maxSeen' = IF Head(batch) > maxSeen THEN Head(batch) ELSE maxSeen
    /\ routedTo' = handler
    /\ lastUpdate' = u
    /\ pendingBefore' = (u.chat \in DOMAIN data.adding_player)
    /\ data' = r.data
    /\ disk' = IF r.saved THEN {r.data} ELSE disk
    /\ out' = r.out
    /\ monItems' = unlink(monItems, data, r.unlinked)
    /\ IF r.raised
       THEN runPc' = "terminated" /\ batch' = batch
       ELSE runPc' = runPc /\ batch' = Tail(batch)
    /\ UNCHANGED <<monVars, durVars>>

\* one iteration of `for u in upd.get("result", [])`: the update goes to
\* `handler`, whose result is r
Iterate(handler, u, r) ==
    /\ runPc = "running" /\ batch # <<>>
    /\ offset' = {Head(batch) + 1}
    /\ maxSeen' = IF Head(batch) > maxSeen THEN Head(batch) ELSE maxSeen
    /\ routedTo' = handler
    /\ lastUpdate' = u
    /\ pendingBefore' = (u.chat \in DOMAIN data.adding_player)
    /\ data' = r.data
    /\ disk' = IF r.saved THEN {r.data} ELSE disk
    /\ out' = r.out
    /\ monItems' = unlink(monItems, data, r.unlinked)
    /\ IF r.raised
       THEN runPc' = "terminated" /\ batch' = batch
       ELSE runPc' = runPc /\ batch' = Tail(batch)
    /\ UNCHANGED <<monVars, durVars>>

\* if "message" in u: handle_message(u["message"])
MessageStep(msg, fail) ==
    /\ runPc = "running" /\ batch # <<>>
    /\ \E r \in {handle_message(data, msg, fail)} :
        Iterate("handle_message",
                [chat |-> msg.chat, username |-> msg.username,
                 content |-> msg.text],
                r)

\* elif "callback_query" in u: handle_callback(u["callback_query"])
CallbackStep(cb, fail, st) ==
    /\ runPc = "running" /\ batch # <<>>
    /\ \E r \in {handle_callback(data, cb, fail, st)} :
        Iterate("handle_callback",
                [chat |-> cb.chat, username |-> cb.username,
                 content |-> cb.data],
                r)

DispatchMessage ==
    \E msg \in Messages, fail \in 0..1 : MessageStep(msg, fail)

DispatchCallback ==
    \E cb \in Callbacks, fail \in 0..2 :
       \E st \in IF startswith(cb.data, <<"status", "|">>)
                  THEN fetch_player_status ELSE {{}} :
          CallbackStep(cb, fail, st)

\* an update with neither "message" nor "callback_query" (an edited
\* message, a channel post, ...): no handler is called
DispatchOther ==
    Iterate("none", NoUpdate, Result(data, <<>>, FALSE, {}))

-----------------------------------------------------------------------------
(* monitor_loop(): the notification loop.  The thread is a daemon: it ends *)
(* with the process when run() is terminated.                              *)

\* cid = data.get("chat_id"); if not cid: time.sleep(5); continue
MonitorIdle ==
    /\ runPc = "running" /\ monPc = "while"
    /\ data.chat_id = None
    /\ UNCHANGED vars

\* cid is set: list(data["players"].items())
MonitorStartPass ==
    /\ runPc = "running" /\ monPc = "while"
    /\ data.chat_id # None
    /\ monCid' = data.chat_id
    /\ monItems' = [i \in DOMAIN data.players |-> Ref(data.players[i].key)]
    /\ monPc' = "for"
    /\ sent' = <<>>
    /\ failed' = {}
    /\ UNCHANGED <<data, disk, runVars, durVars, monSt, monDump>>

\* the list is exhausted: time.sleep(CHECK_INTERVAL)
MonitorEndPass ==
    /\ runPc = "running" /\ monPc = "for"
    /\ monItems = <<>>
    /\ monPc' = "while"
    /\ UNCHANGED <<data, disk, runVars, durVars, monCid, monItems, monSt,
                   monDump, sent, failed>>

\* if not info.get("notify"): continue
MonitorSkip ==
    /\ runPc = "running" /\ monPc = "for"
    /\ monItems # <<>>
    /\ ~deref(data, Head(monItems)).notify
    /\ monItems' = Tail(monItems)
    /\ UNCHANGED <<data, disk, runVars, durVars, monVars>>

\* st = fetch_player_status(...)
MonitorFetch ==
    /\ runPc = "running" /\ monPc = "for"
    /\ monItems # <<>>
    /\ deref(data, Head(monItems)).notify
    /\ \E st \in fetch_player_status : monSt' = st
    /\ monPc' = "fetched"
    /\ UNCHANGED <<data, disk, runVars, durVars, monCid, monItems, monDump,
                   sent, failed>>

\* the comparison without the comparison
changed_any(d, item, st) == st # {}

changed(d, item, st) ==
    st # {} /\ currentState(st) # deref(d, item).last_state

\* info["last_state"] = st["currentState"], on the object `item` refers to
set_last_state(d, item, st) ==
    IF item.detached = {}
    THEN [d EXCEPT !.players = setitem(@, item.key,
             [getitem(@, item.key) EXCEPT !.last_state = currentState(st)])]
    ELSE d

\* the comparison that gives up the pass when a fetch failed
MonitorCompare_abort_on_failure ==
    /\ runPc = "running" /\ monPc = "fetched"
    /\ IF changed(data, Head(monItems), monSt)
       THEN /\ data' = set_last_state(data, Head(monItems), monSt)
            /\ monItems' =
                 IF Head(monItems).detached = {} THEN monItems
                 ELSE <<[Head(monItems) EXCEPT !.detached =
                          {[deref(data, Head(monItems)) EXCEPT
                              !.last_state = currentState(monSt)]}]>>
                      \o Tail(monItems)
            /\ monDump' = {data'}
            /\ monPc' = "save"
            /\ UNCHANGED <<monSt, failed>>
       ELSE /\ monItems' = IF monSt = {} THEN <<>> ELSE Tail(monItems)
            /\ monPc' = "for"
            /\ monSt' = {}
            /\ failed' = IF monSt = {} THEN failed \cup {Head(monItems).key}
                         ELSE failed
            /\ UNCHANGED <<data, monDump>>
    /\ UNCHANGED <<disk, runVars, durVars, monCid, sent>>

\* if st and st["currentState"] != info.get("last_state"): the state is
\* recorded and save_data() serialises the dict (json.dumps); else the
\* loop goes on with the next item
MonitorCompare ==
    /\ runPc = "running" /\ monPc = "fetched"
    /\ IF changed(data, Head(monItems), monSt)
       THEN /\ data' = set_last_state(data, Head(monItems), monSt)
            /\ monItems' =
                 IF Head(monItems).detached = {} THEN monItems
                 ELSE <<[Head(monItems) EXCEPT !.detached =
                          {[deref(data, Head(monItems)) EXCEPT
                              !.last_state = currentState(monSt)]}]>>
                      \o Tail(monItems)
            /\ monDump' = {data'}
            /\ monPc' = "save"
            /\ UNCHANGED <<monSt, failed>>
       ELSE /\ monItems' = Tail(monItems)
            /\ monPc' = "for"
            /\ monSt' = {}
            /\ failed' = IF monSt = {} THEN failed \cup {Head(monItems).key}
                         ELSE failed
            /\ UNCHANGED <<data, monDump>>
    /\ UNCHANGED <<disk, runVars, durVars, monCid, sent>>

\* save_data(), second half: write_text writes the serialised text, which
\* is the dict as it was when json.dumps ran
MonitorSave ==
    /\ runPc = "running" /\ monPc = "save"
    /\ disk' = monDump
    /\ monDump' = {}
    /\ monPc' = "send"
    /\ UNCHANGED <<data, runVars, durVars, monCid, monItems, monSt, sent,
                   failed>>

\* telegram_send_message(cid, ...): the call is issued; when its request
\* raises, nothing catches it and the thread ends
MonitorSend ==
    /\ runPc = "running" /\ monPc = "send"
    /\ sent' = Append(sent, [chat |-> monCid, key |-> Head(monItems).key,
                             state |-> currentState(monSt)])
    /\ \E raises \in BOOLEAN :
          monPc' = IF raises THEN "terminated" ELSE "for"
    /\ monItems' = Tail(monItems)
    /\ monSt' = {}
    /\ UNCHANGED <<data, disk, runVars, durVars, monCid, monDump, failed>>

Next ==
    \/ GetUpdatesRaises
    \/ GetUpdatesNotOk
    \/ GetUpdatesOk
    \/ DispatchMessage
    \/ DispatchCallback
    \/ DispatchOther
    \/ MonitorIdle
    \/ MonitorStartPass
    \/ MonitorEndPass
    \/ MonitorSkip
    \/ MonitorFetch
    \/ MonitorCompare
    \/ MonitorSave
    \/ MonitorSend

Spec == Init /\ [][Next]_vars

\* the notification thread is scheduled: each step of monitor_loop that can
\* be taken is taken in the end (time.sleep returns, the HTTP requests
\* return or raise within their timeout)
SpecFair ==
    /\ Spec
    /\ WF_vars(MonitorStartPass)
    /\ WF_vars(MonitorEndPass)
    /\ WF_vars(MonitorSkip)
    /\ WF_vars(MonitorFetch)
    /\ WF_vars(MonitorCompare)
    /\ WF_vars(MonitorSave)
    /\ WF_vars(MonitorSend)

-----------------------------------------------------------------------------
(* format_duration on its own: an answer of the status API carries any of  *)
(* the timestamps, at any of the clock readings, and fetch_player_status   *)
(* builds its "currentStateSince".                                         *)

InitDuration ==
    /\ Start
    /\ rt \in Timestamps
    /\ now \in Clocks
    /\ since = {}

FormatDuration ==
    /\ since = {}
    /\ since' = {currentStateSince(rt, now)}
    /\ UNCHANGED <<data, disk, runVars, monVars, monItems, rt, now>>

NextDuration == FormatDuration

SpecDuration == InitDuration /\ [][NextDuration]_vars

-----------------------------------------------------------------------------
(* Properties                                                              *)

\* the step iterates an update: run() is in the middle of an answer and
\* either moves past its first update or is terminated by it
DispatchStep == batch # <<>> /\ (batch' # batch \/ runPc' # runPc)

\* a username that matches no entry of the allow-list, case ignored
NotListed(username) ==
    \A u \in ALLOWED_USERS : lower(username) # lower(u)

Rejection(cid) == telegram_send_message(cid, TEXT_UNAUTHORIZED)

\* C1: a text message from a username that is not in the allow-list is
\* answered with the fixed rejection text and leaves players, chat_id and
\* adding_player as they were, whatever its text.
C1_UnauthorizedMessageRejected ==
    [][(/\ DispatchStep
        /\ routedTo' = "handle_message"
        /\ NotListed(lastUpdate'.username))
           => (data' = data /\ out' = <<Rejection(lastUpdate'.chat)>>)]_vars

\* a rejection was sent to a chat other than the active one, while an
\* addition was pending in that chat
C1_Witness ==
    /\ routedTo = "handle_message"
    /\ NotListed(lastUpdate.username)
    /\ lastUpdate.content # <<>>
    /\ out = <<Rejection(lastUpdate.chat)>>
    /\ data.chat_id \in Chats \ {lastUpdate.chat}
    /\ lastUpdate.chat \in DOMAIN data.adding_player

\* C2: a menu callback from a username that is not in the allow-list is
\* answered with a rejection and leaves players, chat_id and adding_player
\* as they were.
C2_UnauthorizedCallbackRejected ==
    [][(/\ DispatchStep
        /\ routedTo' = "handle_callback"
        /\ NotListed(lastUpdate'.username))
           => /\ data' = data
              /\ \E i \in DOMAIN out' : out'[i] = Rejection(lastUpdate'.chat)
      ]_vars

\* the fetched code differs from the last state of the record stored under
\* the key of the item the pass is at, which is the record the pass holds
LiveChange ==
    /\ Head(monItems).detached = {}
    /\ monSt # {}
    /\ currentState(monSt) # getitem(data.players, Head(monItems).key).last_state

LiveSame ==
    /\ Head(monItems).detached = {}
    /\ monSt # {}
    /\ currentState(monSt) = getitem(data.players, Head(monItems).key).last_state

\* C3: for a notify-enabled player whose record the pass holds and the
\* registry still stores: when the fetch succeeded with a code other than
\* last_state, the pass records the code in the registry, saves and goes on to
\* send, and the send issues one change message, for that player, with that
\* code; when the fetched code equals last_state the pass sends nothing for the
\* player and leaves the registry alone.  No pass sends two messages for one
\* key.
C3_NotifyOncePerChange ==
    [][/\ (MonitorCompare /\ LiveChange) =>
             /\ getitem(data'.players, Head(monItems).key).last_state
                    = currentState(monSt)
             /\ monPc' = "save" /\ monSt' = monSt /\ monItems' = monItems
             /\ sent' = sent
       /\ (MonitorCompare /\ LiveSame) =>
             /\ data' = data /\ sent' = sent
             /\ monPc' = "for" /\ monItems' = Tail(monItems)
       /\ MonitorSave =>
             /\ data' = data /\ sent' = sent
             /\ monPc' = "send" /\ monSt' = monSt /\ monItems' = monItems
       /\ MonitorSend =>
             /\ sent' = Append(sent, [chat  |-> monCid,
                                      key   |-> Head(monItems).key,
                                      state |-> currentState(monSt)])
             /\ data' = data
             /\ monItems' = Tail(monItems)
       /\ \A i, j \in DOMAIN sent' : sent'[i].key = sent'[j].key => i = j
      ]_vars

\* a pass recorded a new state in the registry and sent its one message
C3_Witness ==
    /\ monPc = "for"
    /\ Len(sent) = 1
    /\ sent[1].key \in keys(data.players)
    /\ getitem(data.players, sent[1].key).notify
    /\ getitem(data.players, sent[1].key).last_state = sent[1].state
    /\ sent[1].state \in StateCodes

\* C4: neither loop ever terminates.
C4_NoLoopTerminates ==
    runPc # "terminated" /\ monPc # "terminated"

\* the callback queries that cancel or complete an addition
CompletingQueries ==
    { <<"cancel">>,
      <<"add_platform", "|", "A", "|", "P", "C">>,
      <<"add_platform", "|", "a", "|", "x", "1">>,
      <<"add_platform", "|", "B", "|", "P", "S", "4">>,
      <<"add_platform", "|", "B", "|", "S", "W", "I", "T", "C", "H">> }

\* handle_callback got past its first call, answerCallbackQuery
Answered == ~(runPc = "terminated" /\ Len(out) = 1)

\* C5: once handle_callback has answered a cancel callback, or an
\* add_platform callback with a valid platform, the chat it came from has no
\* entry in adding_player, until the next update is handled.
C5_PendingRemoved ==
    (/\ routedTo = "handle_callback"
     /\ lastUpdate.content \in CompletingQueries
     /\ Answered)
        => lastUpdate.chat \notin DOMAIN data.adding_player

\* a chat that had a pending addition completed it, and the entry is gone
C5_Witness ==
    /\ routedTo = "handle_callback"
    /\ pendingBefore
    /\ lastUpdate.content \in CompletingQueries \ {<<"cancel">>}
    /\ out = <<telegram_answer_callback(lastUpdate.chat),
               telegram_edit_message(lastUpdate.chat, TEXT_ADDED)>>
    /\ lastUpdate.chat \notin DOMAIN data.adding_player

\* C6: after the "menu" callback of a chat is handled, the chat has no entry
\* in adding_player.
C6_MenuClearsPending ==
    (/\ routedTo = "handle_callback"
     /\ lastUpdate.content = <<"menu">>
     /\ Answered)
        => lastUpdate.chat \notin DOMAIN data.adding_player

\* C7 as claimed: every update the loop has iterated was given to a handler.
C7_EveryUpdateRouted ==
    maxSeen > 0 => routedTo \in {"handle_message", "handle_callback"}

offsetValue == IF offset = {} THEN 0 ELSE CHOOSE n \in offset : TRUE

\* C7 as amended: the updates of an answer are iterated in the order
\* received, each with an id above every id iterated before (so none twice);
\* each goes to at most one handler, and one with neither a message nor a
\* callback query to none; after each the offset is one past the highest id
\* iterated so far, and it never decreases; while the loop polls (no answer
\* being iterated) no step changes the offset or calls a handler.
C7_OffsetAdvances ==
    [][/\ DispatchStep =>
             /\ Head(batch) > maxSeen
             /\ maxSeen' = Head(batch)
             /\ offset' = {maxSeen' + 1}
             /\ batch' = Tail(batch) \/ runPc' = "terminated"
             /\ routedTo' \in {"handle_message", "handle_callback", "none"}
             /\ routedTo' = "none" => (data' = data /\ out' = <<>>)
       /\ offsetValue' >= offsetValue
       /\ batch = <<>> =>
             /\ offset' = offset /\ maxSeen' = maxSeen
             /\ routedTo' = routedTo /\ out' = out /\ lastUpdate' = lastUpdate
       /\ \A i, j \in DOMAIN batch' : i < j => batch'[i] < batch'[j]
       /\ (batch' # <<>> /\ runPc' = "running") => Head(batch') > maxSeen'
      ]_vars

\* the loop is past an update of another shape, in the middle of an answer
C7_Witness ==
    /\ routedTo = "none"
    /\ maxSeen > 1
    /\ offset = {maxSeen + 1}
    /\ batch # <<>>
    /\ runPc = "running"

\* C8: when the notification loop is about to send a change message, the
\* chat it sends to is the active chat.
C8_SentToActiveChat ==
    monPc = "send" => monCid = data.chat_id

\* the add_platform callbacks with a valid platform, with the name, the key
\* and the platform of the record each must leave
ValidAdds ==
    { [query |-> <<"add_platform", "|", "A", "|", "P", "C">>,
       name |-> <<"A">>, key |-> <<"a">>, platform |-> <<"P", "C">>],
      [query |-> <<"add_platform", "|", "a", "|", "x", "1">>,
       name |-> <<"a">>, key |-> <<"a">>, platform |-> <<"X", "1">>],
      [query |-> <<"add_platform", "|", "B", "|", "P", "S", "4">>,
       name |-> <<"B">>, key |-> <<"b">>, platform |-> <<"P", "S", "4">>],
      [query |-> <<"add_platform", "|", "B", "|", "S", "W", "I", "T", "C", "H">>,
       name |-> <<"B">>, key |-> <<"b">>,
       platform |-> <<"S", "W", "I", "T", "C", "H">>] }

Added(add) ==
    [platform |-> add.platform, notify |-> TRUE, last_state |-> None,
     original_name |-> add.name]

\* C9: once handle_callback has answered an add_platform callback with a
\* valid platform, the registry holds exactly one record under the
\* lowercased name, with notify set, last_state None, the platform and the
\* name as given, and the other records as they were; handling the same
\* callback again leaves the same players mapping.
C9_AddPostcondition ==
    [][\A add \in ValidAdds :
          (/\ DispatchStep
           /\ routedTo' = "handle_callback"
           /\ lastUpdate'.content = add.query
           /\ Answered') =>
                /\ Cardinality({i \in DOMAIN data'.players :
                                   data'.players[i].key = add.key}) = 1
                /\ getitem(data'.players, add.key) = Added(add)
                /\ \A i \in DOMAIN data.players :
                      data.players[i].key # add.key
                          => data'.players[i] = data.players[i]
                /\ Len(data'.players) =
                      Len(data.players)
                          + (IF add.key \in keys(data.players) THEN 0 ELSE 1)
                /\ handle_callback(data',
                                   [chat |-> lastUpdate'.chat,
                                    username |-> lastUpdate'.username,
                                    data |-> add.query], 0, {}).data.players
                      = data'.players]_vars

\* an add replaced the record stored under its key, which a notification
\* pass still holds
C9_Witness ==
    /\ routedTo = "handle_callback"
    /\ \E add \in ValidAdds : lastUpdate.content = add.query
    /\ out = <<telegram_answer_callback(lastUpdate.chat),
               telegram_edit_message(lastUpdate.chat, TEXT_ADDED)>>
    /\ \E i \in DOMAIN monItems :
          /\ monItems[i].detached # {}
          /\ monItems[i].key \in keys(data.players)

\* C10: every key of players is the lowercased original_name of its record.
C10_KeyIsLowercasedName ==
    \A i \in DOMAIN data.players :
        data.players[i].key = lower(data.players[i].info.original_name)

\* a record whose name is not its key, after a notification pass wrote to it
C10_Witness ==
    \E i \in DOMAIN data.players :
        /\ data.players[i].key # data.players[i].info.original_name
        /\ data.players[i].info.last_state # None

\* an add_platform query that unpacks into a name and a platform
IsAddPlatform(query) ==
    startswith(query, <<"add_platform", "|">>) /\ Len(split(query, "|", 2)) = 3

nameOf(query) == split(query, "|", 2)[2]

platformOf(query) == split(query, "|", 2)[3]

InvalidNotice(cid) ==
    <<telegram_answer_callback(cid),
      telegram_edit_message(cid, TEXT_INVALID_PLATFORM)>>

\* C11 as claimed: once handle_callback has answered an add_platform callback
\* whose platform value is not one of PC, X1, PS4, SWITCH, it re-renders the
\* platform menu with the invalid-platform notice and leaves players, chat_id
\* and adding_player as they were.
C11_InvalidPlatformRejected ==
    [][(/\ DispatchStep
        /\ routedTo' = "handle_callback"
        /\ IsAddPlatform(lastUpdate'.content)
        /\ platformOf(lastUpdate'.content) \notin VALID_PLATFORMS
        /\ Answered')
           => (data' = data /\ out' = InvalidNotice(lastUpdate'.chat))]_vars

\* C11 as amended: the platform value is compared after upper-casing.  Once
\* handle_callback has answered an add_platform callback whose upper-cased
\* platform value is not one of PC, X1, PS4, SWITCH, it re-renders the
\* platform menu with the invalid-platform notice and leaves players, chat_id
\* and adding_player as they were; and the platform of every record of
\* players is one of the four, after every step.
C11_InvalidAfterUpperRejected ==
    [][/\ (/\ DispatchStep
           /\ routedTo' = "handle_callback"
           /\ IsAddPlatform(lastUpdate'.content)
           /\ upper(platformOf(lastUpdate'.content)) \notin VALID_PLATFORMS
           /\ Answered')
              => (data' = data /\ out' = InvalidNotice(lastUpdate'.chat))
       /\ \A i \in DOMAIN data'.players :
             data'.players[i].info.platform \in VALID_PLATFORMS
      ]_vars

\* a chat with a pending addition and a tracked player chose an invalid
\* platform: the notice went out and the entry and the player are still there
C11_Witness ==
    /\ routedTo = "handle_callback"
    /\ IsAddPlatform(lastUpdate.content)
    /\ upper(platformOf(lastUpdate.content)) \notin VALID_PLATFORMS
    /\ out = InvalidNotice(lastUpdate.chat)
    /\ pendingBefore
    /\ lastUpdate.chat \in DOMAIN data.adding_player
    /\ data.players # <<>>

keyOf(query) == split(query, "|", 1)[2]

\* C12: once handle_callback has answered a remove callback for a key that
\* is not in players, a not-found response went to the user, and players,
\* chat_id and adding_player are as they were.
C12_RemoveUntrackedNotFound ==
    [][(/\ DispatchStep
        /\ routedTo' = "handle_callback"
        /\ startswith(lastUpdate'.content, <<"remove", "|">>)
        /\ keyOf(lastUpdate'.content) \notin keys(data.players)
        /\ Answered')
           => /\ data' = data
              /\ \E i \in DOMAIN out' : out'[i].text = TEXT_NOT_FOUND]_vars

\* the step handles a toggle_notify callback for a tracked player, past the
\* answerCallbackQuery call
ToggleStep ==
    /\ DispatchStep
    /\ routedTo' = "handle_callback"
    /\ startswith(lastUpdate'.content, <<"toggle_notify", "|">>)
    /\ keyOf(lastUpdate'.content) \in keys(data.players)
    /\ Answered'

\* the players mapping after the callback of the step is handled once more
ToggledAgain ==
    handle_callback(data', [chat |-> lastUpdate'.chat,
                            username |-> lastUpdate'.username,
                            data |-> lastUpdate'.content], 0, {}).data.players

tokens(text) == split(strip(text), " ", -1)

\* the step handles a text "/add <name> <platform>" from an authorized user
\* in a chat that has no pending addition
TextAddStep ==
    /\ DispatchStep
    /\ routedTo' = "handle_message"
    /\ is_authorized(lastUpdate'.username)
    /\ ~pendingBefore'
    /\ Len(tokens(lastUpdate'.content)) = 3
    /\ tokens(lastUpdate'.content)[1] = <<"/add">>

C15_FetchFailureSkipped ==
    [][/\ (MonitorCompare /\ monSt = {}) =>
             /\ data' = data /\ disk' = disk /\ sent' = sent
             /\ monPc' = "for"
             /\ monItems' = Tail(monItems)
             /\ failed' = failed \cup {Head(monItems).key}
       /\ \A i \in DOMAIN sent' : sent'[i].key \notin failed'
      ]_vars

\* a pass over two notify-enabled players: the fetch for the first failed
\* and left its record as it was, the second was updated and notified
C15_Witness ==
    /\ monPc = "for"
    /\ Len(data.players) = 2
    /\ failed = {data.players[1].key}
    /\ data.players[1].info.notify
    /\ data.players[1].info.last_state = None
    /\ Len(sent) = 1
    /\ sent[1].key = data.players[2].key
    /\ data.players[2].info.last_state = sent[1].state

\* the dict of the module before anything is stored in it
EmptyData == [players |-> <<>>, chat_id |-> None, adding_player |-> <<>>]

\* C16: whenever no thread is between a change of the dict and the end of the
\* save that follows it (handlers run to their end in one step; the
\* notification loop is inside save_data only at "save"), the file holds the
\* dict as it is in memory; before the first save there is no file and the
\* dict is empty.
C16_PersistedEqualsMemory ==
    monPc # "save" =>
        IF disk = {} THEN data = EmptyData ELSE disk = {data}

\* the whole seconds from the timestamp to the clock reading
elapsed == now.sec - (CHOOSE t \in rt.value : TRUE)

\* C17: for a timestamp that lies d seconds before now, the formatted
\* duration is floor(d/3600) hours and floor((d mod 3600)/60) minutes when
\* d >= 3600, floor(d/60) minutes when 60 <= d < 3600, and d seconds when
\* 0 <= d < 60; a missing, null or negative timestamp gives the "unknown"
\* text.  d = 3661 gives 1 hour 1 minute, d = 61 gives 1 minute, d = 5 gives
\* 5 seconds.
C17_DurationFormat ==
    since # {} =>
        IF ~rt.present \/ rt.value = {} \/ (\E t \in rt.value : t < 0)
        THEN since = {<<TEXT_UNKNOWN>>}
        ELSE /\ elapsed >= 3600 =>
                   since = {<<elapsed \div 3600, TEXT_HOURS,
                             (elapsed % 3600) \div 60, TEXT_MINUTES>>}
             /\ (elapsed >= 60 /\ elapsed < 3600) =>
                   since = {<<elapsed \div 60, TEXT_MINUTES>>}
             /\ (elapsed >= 0 /\ elapsed < 60) =>
                   since = {<<elapsed, TEXT_SECONDS>>}
             /\ elapsed = 3661 => since = {<<1, TEXT_HOURS, 1, TEXT_MINUTES>>}
             /\ elapsed = 61 => since = {<<1, TEXT_MINUTES>>}
             /\ elapsed = 5 => since = {<<5, TEXT_SECONDS>>}

\* a timestamp 3661 seconds before a clock reading with a fractional part
\* was formatted as 1 hour 1 minute
C17_Witness ==
    /\ rt.present /\ rt.value # {}
    /\ now.frac
    /\ elapsed = 3661
    /\ since = {<<1, TEXT_HOURS, 1, TEXT_MINUTES>>}

TrackedKeys == {<<"a">>, <<"b">>}

\* the pass holds the record stored under `key`, notifications are on for
\* it, and its fetch succeeded with `code`, which is not its last_state
FetchedChange(key, code) ==
    /\ monPc = "fetched"
    /\ Head(monItems).key = key
    /\ Head(monItems).detached = {}
    /\ monSt = {[currentState |-> code]}
    /\ getitem(data.players, key).notify
    /\ getitem(data.players, key).last_state # code

\* the change message for `key` and `code` went out to the chat of the pass
\* and the registry holds the code as the last state of the player
Notified(key, code) ==
    /\ monPc \in {"for", "while"}
    /\ \E i \in DOMAIN sent :
          sent[i] = [chat |-> monCid, key |-> key, state |-> code]
    /\ key \in keys(data.players)
    /\ getitem(data.players, key).last_state = code

\* the player was removed, muted or added anew since the fetch
NoLongerDue(key) ==
    \/ key \notin keys(data.players)
    \/ ~getitem(data.players, key).notify
    \/ \E i \in DOMAIN monItems :
          monItems[i].key = key /\ monItems[i].detached # {}

\* C18: when the notification loop is scheduled fairly, a chat is bound, and
\* the fetch for a tracked player with notifications on has succeeded with a
\* code other than its last_state, then in the end the change message for
\* the player has been sent to the chat and the registry holds the code as
\* its last_state, unless the player is removed, muted or added anew before.
C18_ChangeIsNotified ==
    \A key \in TrackedKeys, code \in StateCodes :
        FetchedChange(key, code) ~> (Notified(key, code) \/ NoLongerDue(key))

\* C19: when the notification loop is about to send a change message, the
\* record it has written the state to is the one stored in players under the
\* key, and notifications are on for it.
C19_SentOnlyForLivePlayer ==
    monPc = "send" =>
        /\ Head(monItems).detached = {}
        /\ Head(monItems).key \in keys(data.players)
        /\ getitem(data.players, Head(monItems).key).notify
        /\ getitem(data.players, Head(monItems).key).last_state
               = currentState(monSt)

\* C20: an add_platform callback creates a record only when the chat it
\* comes from has an entry in adding_player that holds the name being
\* added.
C20_AddNeedsPendingName ==
    [][(/\ DispatchStep
        /\ routedTo' = "handle_callback"
        /\ IsAddPlatform(lastUpdate'.content)
        /\ Len(out') = 2 /\ out'[2].text = TEXT_ADDED)
           => /\ lastUpdate'.chat \in DOMAIN data.adding_player
              /\ data.adding_player[lastUpdate'.chat]
                     = {nameOf(lastUpdate'.content)}]_vars

====
